---- MODULE Spec2Model ----
(***************************************************************************)
(* A model of src/app.py: the letter-group assigner (assign_groups), the   *)
(* row extractor (parse_rtf_content) and the orchestrator loop of main().  *)
(*                                                                         *)
(* Three state machines share the module, each with its own variables:     *)
(*   Spec / FairSpec  main() lines 103-112 followed by assign_groups       *)
(*   SpecMain         the sheet x parameter loop of main(), lines 79-126   *)
(*   SpecParse        parse_rtf_content and the .rtf branch of main()      *)
(***************************************************************************)
EXTENDS Integers, Sequences, FiniteSets, TLC

\* ---- assign_groups and its call site ----
VARIABLES means, tukey_summary, grouping_dict, dict_at_call, treatments, idx,
          groups, assigned, current_letter, group, to_check, group_map, pc

avars == <<means, tukey_summary, grouping_dict, dict_at_call, treatments, idx,
           groups, assigned, current_letter, group, to_check, group_map, pc>>

\* ---- parse_rtf_content and the .rtf branch of main ----
VARIABLES content, df, outcome, preview, ppc

pvars == <<content, df, outcome, preview, ppc>>

\* ---- the sheet x parameter loop of main ----
VARIABLES trial_sheets, sheet, available_params, param, sub_df, fit,
          all_results, full_df, filtered_df, shown, mpc

mvars == <<trial_sheets, sheet, available_params, param, sub_df, fit,
           all_results, full_df, filtered_df, shown, mpc>>

vars == <<avars, pvars, mvars>>

\* Largest number of treatment levels of one (trial, parameter) table.
MaxTreatments == 4

\* ord('A'): current_letter is kept as its code point, so that
\* chr(ord(current_letter) + 1) is computed as the code computes it.
ord_A == 65

Range(s) == {s[i] : i \in DOMAIN s}

\* The rows of tukey._results_table for levels lo..n: every pair g1 < g2, in
\* the order statsmodels lists them.
RECURSIVE PairRows(_, _, _)
PairRows(g1, g2, n) ==
    IF g1 >= n THEN <<>>
    ELSE IF g2 > n THEN PairRows(g1 + 1, g1 + 2, n)
    ELSE <<<<g1, g2>>>> \o PairRows(g1, g2 + 1, n)

\* means = sub_df.groupby("Treatment").mean().reset_index(): one row per
\* distinct treatment, in sorted order.  Only the Treatment column is read by
\* assign_groups.
MeansOf(n) == [i \in 1..n |-> i]

\* defaultdict(set).__getitem__: the value stored under key, and the
\* dictionary afterwards (a missing key is inserted with an empty set).
DictGet(d, key) == IF key \in DOMAIN d THEN d[key] ELSE {}

DictAfterGet(d, key) ==
    IF key \in DOMAIN d THEN d
    ELSE [k \in DOMAIN d \cup {key} |-> IF k = key THEN {} ELSE d[k]]

\* grouping_dict[a].add(b)
DictAdd(d, a, b) ==
    [k \in DOMAIN d \cup {a} |-> IF k = a THEN DictGet(d, a) \cup {b} ELSE d[k]]

\* A variant that advances the letter by two.
NextLetterMutant(c) == c + 2

\* chr(ord(current_letter) + 1)
NextLetter(c) == c + 1

\* A variant without the 'not in group' test of line 35.
NewNeighborsMutant(d, item, grp) == DictGet(d, item)

\* The neighbours of item the inner for loop adds: those not yet in group.
NewNeighbors(d, item, grp) == {nb \in DictGet(d, item) : nb \notin grp}

\* A variant without to_check.add(neighbor), line 37.
WorklistAfterMutant(chk, item, new) == chk \ {item}

\* to_check after item was popped and the new neighbours were added.
WorklistAfter(chk, item, new) == (chk \ {item}) \cup new

NoDict == [k \in {} |-> {}]

\* The variables of the other machines while one machine runs.
ParseIdle ==
    /\ content = <<>>
    /\ df = <<>>
    /\ outcome = "none"
    /\ preview = <<>>
    /\ ppc = "idle"

NoFit == [status |-> "none"]

MainIdle ==
    /\ trial_sheets = <<>>
    /\ sheet = 1
    /\ available_params = <<>>
    /\ param = 1
    /\ sub_df = <<>>
    /\ fit = NoFit
    /\ all_results = <<>>
    /\ full_df = <<>>
    /\ filtered_df = <<>>
    /\ shown = "none"
    /\ mpc = "idle"

AssignIdle ==
    /\ means = <<>>
    /\ tukey_summary = <<>>
    /\ grouping_dict = NoDict
    /\ dict_at_call = NoDict
    /\ treatments = <<>>
    /\ idx = 1
    /\ groups = NoDict
    /\ assigned = {}
    /\ current_letter = ord_A
    /\ group = {}
    /\ to_check = {}
    /\ group_map = NoDict
    /\ pc = "idle"

Init ==
    /\ \E n \in 2..MaxTreatments :
         /\ means = MeansOf(n)
         /\ \E rej \in [Range(PairRows(1, 2, n)) -> BOOLEAN] :
              tukey_summary =
                 [i \in DOMAIN PairRows(1, 2, n) |->
                    [group1 |-> PairRows(1, 2, n)[i][1],
                     group2 |-> PairRows(1, 2, n)[i][2],
                     reject |-> rej[PairRows(1, 2, n)[i]]]]
    /\ grouping_dict = NoDict
    /\ dict_at_call = NoDict
    /\ treatments = <<>>
    /\ idx = 1
    /\ groups = NoDict
    /\ assigned = {}
    /\ current_letter = ord_A
    /\ group = {}
    /\ to_check = {}
    /\ group_map = NoDict
    /\ pc = "tukey"
    /\ ParseIdle
    /\ MainIdle

\* main, lines 107-111: one row of tukey_summary.
TukeyRow ==
    /\ pc = "tukey"
    /\ idx <= Len(tukey_summary)
    /\ LET r == tukey_summary[idx] IN
         grouping_dict' =
            IF r.reject THEN grouping_dict
            ELSE DictAdd(DictAdd(grouping_dict, r.group1, r.group2),
                         r.group2, r.group1)
    /\ idx' = idx + 1
    /\ UNCHANGED <<means, tukey_summary, dict_at_call, treatments, groups,
                   assigned, current_letter, group, to_check, group_map, pc>>
    /\ UNCHANGED <<pvars, mvars>>

\* main, line 112, and assign_groups, lines 23-26: the call.
Call ==
    /\ pc = "tukey"
    /\ idx > Len(tukey_summary)
    /\ dict_at_call' = grouping_dict
    /\ treatments' = means
    /\ groups' = NoDict
    /\ assigned' = {}
    /\ current_letter' = ord_A
    /\ idx' = 1
    /\ pc' = "for"
    /\ UNCHANGED <<means, tukey_summary, grouping_dict, group, to_check, group_map>>
    /\ UNCHANGED <<pvars, mvars>>

\* lines 27-29: the scan reaches a treatment that already has a letter.
SkipAssigned ==
    /\ pc = "for"
    /\ idx <= Len(treatments)
    /\ treatments[idx] \in assigned
    /\ idx' = idx + 1
    /\ UNCHANGED <<means, tukey_summary, grouping_dict, dict_at_call, treatments,
                   groups, assigned, current_letter, group, to_check, group_map, pc>>
    /\ UNCHANGED <<pvars, mvars>>

\* lines 27-31: the scan reaches a treatment without a letter.
StartGroup ==
    /\ pc = "for"
    /\ idx <= Len(treatments)
    /\ treatments[idx] \notin assigned
    /\ group' = {treatments[idx]}
    /\ to_check' = {treatments[idx]}
    /\ pc' = "while"
    /\ UNCHANGED <<means, tukey_summary, grouping_dict, dict_at_call, treatments,
                   idx, groups, assigned, current_letter, group_map>>
    /\ UNCHANGED <<pvars, mvars>>

\* lines 32-37: one iteration of the while loop.  set.pop() removes an
\* arbitrary element.
PopItem ==
    /\ pc = "while"
    /\ to_check # {}
    /\ \E item \in to_check :
         LET new == NewNeighbors(grouping_dict, item, group) IN
           /\ group' = group \cup new
           /\ to_check' = WorklistAfter(to_check, item, new)
           /\ grouping_dict' = DictAfterGet(grouping_dict, item)
    /\ UNCHANGED <<means, tukey_summary, dict_at_call, treatments, idx, groups,
                   assigned, current_letter, group_map, pc>>
    /\ UNCHANGED <<pvars, mvars>>

\* lines 38-41: the worklist is empty, the group gets the current letter.
AssignLetter ==
    /\ pc = "while"
    /\ to_check = {}
    /\ groups' = [k \in DOMAIN groups \cup group |->
                    IF k \in group THEN current_letter ELSE groups[k]]
    /\ assigned' = assigned \cup group
    /\ current_letter' = NextLetter(current_letter)
    /\ idx' = idx + 1
    /\ pc' = "for"
    /\ UNCHANGED <<means, tukey_summary, grouping_dict, dict_at_call, treatments,
                   group, to_check, group_map>>
    /\ UNCHANGED <<pvars, mvars>>

\* line 42 and main, line 112: return groups.
Return ==
    /\ pc = "for"
    /\ idx > Len(treatments)
    /\ group_map' = groups
    /\ pc' = "done"
    /\ UNCHANGED <<means, tukey_summary, grouping_dict, dict_at_call, treatments,
                   idx, groups, assigned, current_letter, group, to_check>>
    /\ UNCHANGED <<pvars, mvars>>

Next ==
    \/ TukeyRow
    \/ Call
    \/ SkipAssigned
    \/ StartGroup
    \/ PopItem
    \/ AssignLetter
    \/ Return

Spec == Init /\ [][Next]_vars

\* The loops of assign_groups run without interruption: a step that can be
\* taken is taken.
FairSpec == Init /\ [][Next]_vars /\ WF_vars(Next)

\* ---- parse_rtf_content ----

\* Largest number of lines of an .rtf text.
MaxLines == 3

\* st.text("\n".join(rtf_text.splitlines()[:30]))
PreviewLines == 30

\* A text is a sequence of one-character strings.  The character classes of
\* the regular expression, over the characters the sample lines use.
Whitespace == {" ", "\t"}

Digit == {"0", "1", "2", "3", "4", "5", "6", "7", "8", "9"}

Upper == {"A", "B", "C", "D", "E", "F", "G", "H", "I", "J", "K", "L", "M",
          "N", "O", "P", "Q", "R", "S", "T", "U", "V", "W", "X", "Y", "Z"}

Lower == {"a", "b", "c", "d", "e", "f", "g", "h", "i", "j", "k", "l", "m",
          "n", "o", "p", "q", "r", "s", "t", "u", "v", "w", "x", "y", "z"}

WordChar == Upper \cup Lower \cup Digit \cup {"_"}

DigitValue == [c \in Digit |->
    CASE c = "0" -> 0 [] c = "1" -> 1 [] c = "2" -> 2 [] c = "3" -> 3
      [] c = "4" -> 4 [] c = "5" -> 5 [] c = "6" -> 6 [] c = "7" -> 7
      [] c = "8" -> 8 [] c = "9" -> 9]

SampleLines == {
    \* the three data lines and the text line of the spec's example
    <<"T", "1", " ", "1", "0", ".", "2", " ", "A">>,
    <<"T", "2", " ", "1", "0", ".", "9", " ", "A">>,
    <<"T", "3", " ", "1", "5", ".", "0", " ", "B">>,
    <<"n", "o", "t", " ", "a", " ", "d", "a", "t", "a", " ", "l", "i", "n", "e">>,
    \* an integer mean
    <<"T", "1", " ", "1", "0", " ", "A">>,
    \* a negative mean
    <<"T", "1", " ", "-", "1", ".", "5", " ", "A">>,
    \* a treatment name with a character outside \w
    <<"T", "-", "1", " ", "1", ".", "0", " ", "A">>,
    \* a lower-case group
    <<"T", "1", " ", "1", ".", "5", " ", "a">>,
    \* two tokens
    <<"T", "1", " ", "1", "0", ".", "2">>,
    \* leading white space, tabs, runs of blanks, four tokens
    <<"\t", "T", "1", "\t", " ", "1", ".", "5", " ", " ", "A", "b", " ", "c">>,
    \* a second token that starts like a number
    <<"T", "1", " ", "1", ".", "5", "A", " ", "B">>,
    \* an empty line
    <<>>
}

\* The first position j >= i of s whose character is outside class (inside
\* it, when member is FALSE); Len(s) + 1 when there is none.
RECURSIVE SkipWhile(_, _, _, _)
SkipWhile(s, i, class, member) ==
    IF i > Len(s) \/ ((s[i] \in class) # member) THEN i
    ELSE SkipWhile(s, i + 1, class, member)

\* str.splitlines() over "\n": the pieces between line breaks, without a
\* last empty piece.
RECURSIVE SplitLines(_)
SplitLines(text) ==
    IF text = <<>> THEN <<>>
    ELSE LET j == SkipWhile(text, 1, {"\n"}, FALSE)
         IN  <<SubSeq(text, 1, j - 1)>> \o SplitLines(SubSeq(text, j + 1, Len(text)))

\* "\n".join(lines)
RECURSIVE JoinLines(_)
JoinLines(ls) ==
    IF ls = <<>> THEN <<>>
    ELSE IF Len(ls) = 1 THEN ls[1]
    ELSE ls[1] \o <<"\n">> \o JoinLines(Tail(ls))

\* A variant without the test of line 51.
LineMatchesMutant(line) == TRUE

\* re.match(r"^\s*\w+\s+\d+\.\d+\s+[A-Z]+", line).  Neighbouring classes of
\* the pattern are disjoint, so the greedy scan is the whole search.
LineMatches(line) ==
    LET a == SkipWhile(line, 1, Whitespace, TRUE)
        b == SkipWhile(line, a, WordChar, TRUE)
        c == SkipWhile(line, b, Whitespace, TRUE)
        d == SkipWhile(line, c, Digit, TRUE)
        e == SkipWhile(line, d + 1, Digit, TRUE)
        f == SkipWhile(line, e, Whitespace, TRUE)
        g == SkipWhile(line, f, Upper, TRUE)
    IN  /\ b > a
        /\ c > b
        /\ d > c
        /\ d <= Len(line) /\ line[d] = "."
        /\ e > d + 1
        /\ f > e
        /\ g > f

\* line.strip().split(): the maximal runs of characters that are not white
\* space.
RECURSIVE SplitFrom(_, _)
SplitFrom(line, i) ==
    LET a == SkipWhile(line, i, Whitespace, TRUE)
        b == SkipWhile(line, a, Whitespace, FALSE)
    IN  IF a > Len(line) THEN <<>>
        ELSE <<SubSeq(line, a, b - 1)>> \o SplitFrom(line, b)

Split(line) == SplitFrom(line, 1)

\* The number written by the digits tok[from .. to - 1].
RECURSIVE DigitsValue(_, _, _)
DigitsValue(tok, from, to) ==
    IF to <= from THEN 0
    ELSE 10 * DigitsValue(tok, from, to - 1) + DigitValue[tok[to - 1]]

RECURSIVE Pow10(_)
Pow10(n) == IF n <= 0 THEN 1 ELSE 10 * Pow10(n - 1)

\* The places of a decimal literal: [sign] digits [. digits] | [sign] . digits,
\* then an optional exponent.
FloatShape(tok) ==
    LET a  == IF tok # <<>> /\ tok[1] \in {"+", "-"} THEN 2 ELSE 1
        b  == SkipWhile(tok, a, Digit, TRUE)
        dot == b <= Len(tok) /\ tok[b] = "."
        c  == IF dot THEN SkipWhile(tok, b + 1, Digit, TRUE) ELSE b
        ex == c <= Len(tok) /\ tok[c] \in {"e", "E"}
        d  == IF ex /\ c + 1 <= Len(tok) /\ tok[c + 1] \in {"+", "-"}
              THEN c + 2 ELSE c + 1
        e  == IF ex THEN SkipWhile(tok, d, Digit, TRUE) ELSE c
    IN  [a |-> a, b |-> b, dot |-> dot, c |-> c, ex |-> ex, d |-> d, e |-> e]

\* Whether float(tok) returns (it raises ValueError otherwise).
FloatParses(tok) ==
    LET p == FloatShape(tok)
        nfrac == IF p.dot THEN p.c - (p.b + 1) ELSE 0
    IN  /\ (p.b - p.a) + nfrac >= 1
        /\ p.ex => p.e > p.d
        /\ p.e = Len(tok) + 1

\* A decimal number num / 10^scale with no trailing zero in the fraction.
RECURSIVE Normalize(_, _)
Normalize(num, scale) ==
    IF scale < 0 THEN Normalize(num * 10, scale + 1)
    ELSE IF scale > 0 /\ num % 10 = 0 THEN Normalize(num \div 10, scale - 1)
    ELSE [num |-> num, scale |-> scale]

\* float(tok), for a token float() accepts.
FloatOf(tok) ==
    LET p == FloatShape(tok)
        nfrac == IF p.dot THEN p.c - (p.b + 1) ELSE 0
        mant == DigitsValue(tok, p.a, p.b) * Pow10(nfrac)
                  + (IF p.dot THEN DigitsValue(tok, p.b + 1, p.c) ELSE 0)
        sign == IF tok[1] = "-" THEN -1 ELSE 1
        expo == IF ~p.ex THEN 0
                ELSE IF tok[p.c + 1] = "-" THEN -DigitsValue(tok, p.d, p.e)
                ELSE DigitsValue(tok, p.d, p.e)
    IN  Normalize(sign * mant, nfrac - expo)

\* What parse_rtf_content returns when float() raises.
ValueError == "ValueError"

\* Lines 50-57 for the lines from position i on, data being the list so far.
RECURSIVE ExtractFrom(_, _, _)
ExtractFrom(lines, i, data) ==
    IF i > Len(lines) THEN data
    ELSE LET line == lines[i]
             parts == Split(line)
         IN  IF LineMatches(line) /\ Len(parts) >= 3
             THEN IF FloatParses(parts[2])
                  THEN ExtractFrom(lines, i + 1,
                          Append(data, [Treatment |-> parts[1],
                                        Mean |-> FloatOf(parts[2]),
                                        Group |-> parts[3]]))
                  ELSE ValueError
             ELSE ExtractFrom(lines, i + 1, data)

\* parse_rtf_content(content): the rows of the returned DataFrame.
parse_rtf_content(text) == ExtractFrom(SplitLines(text), 1, <<>>)

\* rtf_text.splitlines()[:30]
PreviewOf(text) ==
    LET ls == SplitLines(text)
    IN  SubSeq(ls, 1, IF Len(ls) < PreviewLines THEN Len(ls) ELSE PreviewLines)

\* Every sequence of at most n sample lines.
RECURSIVE LineSeqs(_)
LineSeqs(n) ==
    IF n = 0 THEN {<<>>}
    ELSE LineSeqs(n - 1) \cup
         {Append(ls, l) : ls \in {x \in LineSeqs(n - 1) : Len(x) = n - 1},
                          l \in SampleLines}

InitParse ==
    /\ \E ls \in LineSeqs(MaxLines) : content = JoinLines(ls)
    /\ df = <<>>
    /\ outcome = "none"
    /\ preview = <<>>
    /\ ppc = "read"
    /\ AssignIdle
    /\ MainIdle

\* main, lines 150-152: the text is parsed.
ParseRtf ==
    /\ ppc = "read"
    /\ df' = parse_rtf_content(content)
    /\ ppc' = "parsed"
    /\ UNCHANGED <<content, outcome, preview>>
    /\ UNCHANGED <<avars, mvars>>

\* main, lines 153-156: no record, the error and the raw preview are shown.
\* (Line 156 is indented less than its block; it is read as the last
\* statement of the if branch, the only reading under which line 159's else
\* has an if.)
ShowNoData ==
    /\ ppc = "parsed"
    /\ df = <<>>
    /\ outcome' = "no_data"
    /\ preview' = PreviewOf(content)
    /\ ppc' = "shown"
    /\ UNCHANGED <<content, df>>
    /\ UNCHANGED <<avars, mvars>>

\* main, lines 159-161: the parsed table is shown.
ShowParsed ==
    /\ ppc = "parsed"
    /\ df # <<>>
    /\ df # ValueError
    /\ outcome' = "parsed"
    /\ ppc' = "shown"
    /\ UNCHANGED <<content, df, preview>>
    /\ UNCHANGED <<avars, mvars>>

NextParse ==
    \/ ParseRtf
    \/ ShowNoData
    \/ ShowParsed

SpecParse == InitParse /\ [][NextParse]_vars

\* ---- the sheet x parameter loop of main ----

\* Largest number of trial sheets of a workbook.
MaxSheets == 2

\* Largest number of priority parameters a sheet has a column for.
MaxParams == 2

\* full_df["p_value"] < 0.05, in hundredths.
Alpha == 5

\* The p-values a fitted model may report, in hundredths.
PValues == {1, 20}

\* priority_params.  ("DP L" stands for the name with the degree sign.)
priority_params ==
    <<"Fri %", "FAN mg/L", "DP L", "Extract FGDB %", "BG ppm",
      "Beta-Glucan ppm", "Protein %", "S/T %", "Wort Color SRM">>

\* The priority parameters a sheet may have a column for.
ParamColumns == {priority_params[i] : i \in 1..MaxParams}

\* The Treatment column of sub_df = df[["Treatment", param]].dropna(): three
\* rows of one treatment, two rows of two treatments, three rows of two
\* treatments.
SubTables == {<<1, 1, 1>>, <<1, 2>>, <<1, 2, 2>>}

\* A variant with 'and' for 'or'.
TooSmallMutant(t) == Cardinality(Range(t)) < 2 /\ Len(t) < 3

\* sub_df["Treatment"].nunique() < 2 or sub_df.shape[0] < 3
TooSmall(t) == Cardinality(Range(t)) < 2 \/ Len(t) < 3

\* The distinct values of a column in sorted order, as groupby lists them.
RECURSIVE Sorted(_)
Sorted(S) ==
    IF S = {} THEN <<>>
    ELSE LET lo == CHOOSE x \in S : \A y \in S : x <= y
         IN  <<lo>> \o Sorted(S \ {lo})

\* The rows of the Tukey table of a fit over the given levels.  The tables of
\* SubTables have at most two levels, and for two levels Tukey's test of the
\* one pair is the F test of the model: the pair is rejected exactly when
\* the model's p-value is below 0.05.
TukeyRowsOf(levels, p) ==
    LET prs == PairRows(1, 2, Len(levels))
    IN  [i \in DOMAIN prs |->
           [group1 |-> levels[prs[i][1]],
            group2 |-> levels[prs[i][2]],
            reject |-> p < Alpha]]

\* main, lines 106-111: grouping_dict after the rows from position i on.
RECURSIVE DictFrom(_, _, _)
DictFrom(rows, i, d) ==
    IF i > Len(rows) THEN d
    ELSE DictFrom(rows, i + 1,
            IF rows[i].reject THEN d
            ELSE DictAdd(DictAdd(d, rows[i].group1, rows[i].group2),
                         rows[i].group2, rows[i].group1))

\* assign_groups, lines 30-37: the group grown from grp with worklist chk.
RECURSIVE GroupFrom(_, _, _)
GroupFrom(d, grp, chk) ==
    IF chk = {} THEN grp
    ELSE LET item == CHOOSE x \in chk : TRUE
             new == NewNeighbors(d, item, grp)
         IN  GroupFrom(d, grp \cup new, WorklistAfter(chk, item, new))

\* assign_groups, lines 27-42: the scan from position i on; gs holds the
\* letters given so far and its keys are the assigned treatments.
RECURSIVE AssignFrom(_, _, _, _, _)
AssignFrom(tr, i, d, gs, letter) ==
    IF i > Len(tr) THEN gs
    ELSE IF tr[i] \in DOMAIN gs THEN AssignFrom(tr, i + 1, d, gs, letter)
    ELSE LET grp == GroupFrom(d, {tr[i]}, {tr[i]})
         IN  AssignFrom(tr, i + 1, d,
                [k \in DOMAIN gs \cup grp |-> IF k \in grp THEN letter ELSE gs[k]],
                NextLetter(letter))

assign_groups(tr, d) == AssignFrom(tr, 1, d, NoDict, ord_A)

\* A variant that gives the model's p-value to the first row only.
TaggedRowsMutant(levels, gmap, prm, trial, fp) ==
    [i \in DOMAIN levels |->
       [Treatment |-> levels[i], Group |-> gmap[levels[i]],
        Parameter |-> prm, Trial |-> trial,
        p_value |-> IF i = 1 THEN fp ELSE 0]]

\* main, lines 113-116: the rows of means with their Group, Parameter, Trial
\* and p_value columns.  (The Mean column is carried along unread and is
\* left out.)
TaggedRows(levels, gmap, prm, trial, fp) ==
    [i \in DOMAIN levels |->
       [Treatment |-> levels[i], Group |-> gmap[levels[i]],
        Parameter |-> prm, Trial |-> trial, p_value |-> fp]]

\* pd.concat(all_results, ignore_index=True)
RECURSIVE Concat(_)
Concat(tables) ==
    IF tables = <<>> THEN <<>> ELSE tables[1] \o Concat(Tail(tables))

\* full_df[full_df["p_value"] < 0.05]
BelowAlpha(row) == row.p_value < Alpha

\* A variant that leaves the parameter loop (break).
AfterFitFailureMutant(prm, avail) == Len(avail) + 1

\* Where the parameter loop goes after a failed fit: on to the next
\* parameter (continue).
AfterFitFailure(prm, avail) == prm + 1

InitMain ==
    /\ \E n \in 0..MaxSheets : trial_sheets = [i \in 1..n |-> i]
    /\ sheet = 1
    /\ available_params = <<>>
    /\ param = 1
    /\ sub_df = <<>>
    /\ fit = NoFit
    /\ all_results = <<>>
    /\ full_df = <<>>
    /\ filtered_df = <<>>
    /\ shown = "none"
    /\ mpc = "sheet"
    /\ AssignIdle
    /\ ParseIdle

\* lines 81-87: the next sheet is read and its priority parameters found.
ReadSheet ==
    /\ mpc = "sheet"
    /\ sheet <= Len(trial_sheets)
    /\ \E cols \in SUBSET ParamColumns :
          available_params' = SelectSeq(priority_params, LAMBDA q : q \in cols)
    /\ param' = 1
    /\ mpc' = "param"
    /\ UNCHANGED <<trial_sheets, sheet, sub_df, fit, all_results, full_df,
                   filtered_df, shown>>
    /\ UNCHANGED <<avars, pvars>>

\* lines 89-90: the next parameter's table.
SelectParam ==
    /\ mpc = "param"
    /\ param <= Len(available_params)
    /\ \E t \in SubTables : sub_df' = t
    /\ mpc' = "check"
    /\ UNCHANGED <<trial_sheets, sheet, available_params, param, fit,
                   all_results, full_df, filtered_df, shown>>
    /\ UNCHANGED <<avars, pvars>>

\* lines 91-92: too little data, continue.
SkipSmall ==
    /\ mpc = "check"
    /\ TooSmall(sub_df)
    /\ param' = param + 1
    /\ mpc' = "param"
    /\ UNCHANGED <<trial_sheets, sheet, available_params, sub_df, fit,
                   all_results, full_df, filtered_df, shown>>
    /\ UNCHANGED <<avars, pvars>>

\* lines 94-101: ols or pairwise_tukeyhsd raises, continue.
FitFails ==
    /\ mpc = "check"
    /\ ~TooSmall(sub_df)
    /\ fit' = [status |-> "error"]
    /\ param' = AfterFitFailure(param, available_params)
    /\ mpc' = "param"
    /\ UNCHANGED <<trial_sheets, sheet, available_params, sub_df,
                   all_results, full_df, filtered_df, shown>>
    /\ UNCHANGED <<avars, pvars>>

\* lines 94-99: the model and the Tukey table.
FitSucceeds ==
    /\ mpc = "check"
    /\ ~TooSmall(sub_df)
    /\ \E p \in PValues :
          fit' = [status |-> "ok", f_pvalue |-> p,
                  tukey |-> TukeyRowsOf(Sorted(Range(sub_df)), p)]
    /\ mpc' = "fitted"
    /\ UNCHANGED <<trial_sheets, sheet, available_params, param, sub_df,
                   all_results, full_df, filtered_df, shown>>
    /\ UNCHANGED <<avars, pvars>>

\* lines 103-117: the means, their letters and tags; the table is appended.
Analyze ==
    /\ mpc = "fitted"
    /\ LET levels == Sorted(Range(sub_df))
           gmap == assign_groups(levels, DictFrom(fit.tukey, 1, NoDict))
       IN  all_results' = Append(all_results,
              TaggedRows(levels, gmap, available_params[param],
                         trial_sheets[sheet], fit.f_pvalue))
    /\ param' = param + 1
    /\ mpc' = "param"
    /\ UNCHANGED <<trial_sheets, sheet, available_params, sub_df, fit,
                   full_df, filtered_df, shown>>
    /\ UNCHANGED <<avars, pvars>>

\* line 89: the parameters of the sheet are exhausted; line 81: next sheet.
EndSheet ==
    /\ mpc = "param"
    /\ param > Len(available_params)
    /\ sheet' = sheet + 1
    /\ mpc' = "sheet"
    /\ UNCHANGED <<trial_sheets, available_params, param, sub_df, fit,
                   all_results, full_df, filtered_df, shown>>
    /\ UNCHANGED <<avars, pvars>>

\* lines 119-126: there are results; the full and the filtered table are
\* shown.
ShowResults ==
    /\ mpc = "sheet"
    /\ sheet > Len(trial_sheets)
    /\ all_results # <<>>
    /\ full_df' = Concat(all_results)
    /\ filtered_df' = SelectSeq(Concat(all_results), BelowAlpha)
    /\ shown' = "complete"
    /\ mpc' = "done"
    /\ UNCHANGED <<trial_sheets, sheet, available_params, param, sub_df, fit,
                   all_results>>
    /\ UNCHANGED <<avars, pvars>>

\* line 119: all_results is empty; the if has no else and nothing is shown.
ShowNothing ==
    /\ mpc = "sheet"
    /\ sheet > Len(trial_sheets)
    /\ all_results = <<>>
    /\ shown' = "nothing"
    /\ mpc' = "done"
    /\ UNCHANGED <<trial_sheets, sheet, available_params, param, sub_df, fit,
                   all_results, full_df, filtered_df>>
    /\ UNCHANGED <<avars, pvars>>

NextMain ==
    \/ ReadSheet
    \/ SelectParam
    \/ SkipSmall
    \/ FitFails
    \/ FitSucceeds
    \/ Analyze
    \/ EndSheet
    \/ ShowResults
    \/ ShowNothing

SpecMain == InitMain /\ [][NextMain]_vars

\* ---- the claims about assign_groups ----

\* u and v are 'not significantly different': some row of tukey_summary for
\* the pair was not rejected.
Adjacent(u, v) ==
    \E i \in DOMAIN tukey_summary :
       /\ ~tukey_summary[i].reject
       /\ {tukey_summary[i].group1, tukey_summary[i].group2} = {u, v}

RECURSIVE Reachable(_)
Reachable(S) ==
    LET T == S \cup {v \in Range(means) : \E u \in S : Adjacent(u, v)}
    IN  IF T = S THEN S ELSE Reachable(T)

SameComponent(u, v) == v \in Reachable({u})

\* C1: when assign_groups has returned, every treatment of the means table
\* has a letter, and two treatments have the same letter if and only if one
\* is reachable from the other through 'not significantly different' edges.
C1_LetterGroupCorrect ==
    pc = "done" =>
       /\ DOMAIN group_map = Range(means)
       /\ \A u \in Range(means) : \A v \in Range(means) :
             (group_map[u] = group_map[v]) <=> SameComponent(u, v)

\* A returned result where u-v and v-w were not rejected, u-w was rejected,
\* all three share a letter, and some other treatment has another letter.
C1_Witness ==
    /\ pc = "done"
    /\ \E u \in Range(means) : \E v \in Range(means) : \E w \in Range(means) :
          /\ Adjacent(u, v) /\ Adjacent(v, w) /\ ~Adjacent(u, w) /\ u # w
          /\ group_map[u] = group_map[v] /\ group_map[v] = group_map[w]
          /\ \E x \in Range(means) : group_map[x] # group_map[u]

\* The letters given so far.
UsedLetters == {groups[t] : t \in DOMAIN groups}

\* The table position at which the component of t first appears.
FirstPos(t) ==
    CHOOSE i \in DOMAIN means :
       /\ SameComponent(means[i], t)
       /\ \A j \in DOMAIN means : SameComponent(means[j], t) => i <= j

\* The number of components that first appear before the component of t.
ComponentRank(t) ==
    Cardinality({FirstPos(u) : u \in {x \in Range(means) : FirstPos(x) < FirstPos(t)}})

\* C2: during and after the scan the letters given form the gap-free prefix
\* A .. (current letter - 1), the letter about to be given is the earliest
\* unused one, the k-th component in order of first appearance in the means
\* table has the k-th letter, and the first treatment of the table has 'A'.
C2_LetterMonotone ==
    pc \in {"for", "while", "done"} =>
       /\ UsedLetters = ord_A .. (current_letter - 1)
       /\ \A t \in DOMAIN groups : groups[t] = ord_A + ComponentRank(t)
       /\ pc = "done" => group_map[means[1]] = ord_A

\* A returned result with three components, lettered A, B, C.
C2_Witness ==
    /\ pc = "done"
    /\ {group_map[t] : t \in DOMAIN group_map} = {ord_A, ord_A + 1, ord_A + 2}

\* The treatments of the table that have no letter yet.
Unassigned == Range(treatments) \ assigned

\* C9: assign_groups returns; a step that gives a group its letter strictly
\* shrinks the set of unassigned treatments; a treatment is put on the
\* worklist only when it is not yet in the current group, and whatever is on
\* the worklist is in the group, so no treatment is put on it twice for one
\* group.
C9_Terminates ==
    /\ <>(pc = "done")
    /\ [][(pc = "while" /\ pc' = "for") =>
            (Unassigned' \subseteq Unassigned /\ Unassigned' # Unassigned)]_vars
    /\ [][(pc = "while" /\ pc' = "while") =>
            /\ (to_check' \ to_check) \cap group = {}
            /\ to_check' \subseteq group'
            /\ group \subseteq group'
            /\ Cardinality(Range(treatments) \ group') + Cardinality(to_check')
                 < Cardinality(Range(treatments) \ group) + Cardinality(to_check)]_vars

\* The worklist has emptied after a traversal that reached three treatments.
C9_Witness ==
    /\ pc = "while"
    /\ to_check = {}
    /\ Cardinality(group) >= 3

\* C10: when assign_groups has returned, the means table and grouping_dict
\* (its keys and every neighbour set) are what they were at the call.
C10_NotMutated ==
    pc = "done" =>
       /\ treatments = means
       /\ grouping_dict = dict_at_call

\* ---- the claims about parse_rtf_content ----

\* The lines parse_rtf_content scans.
Lines == SplitLines(content)

\* The line has at least 3 tokens and float() accepts the second.
Qualifies(line) ==
    /\ Len(Split(line)) >= 3
    /\ FloatParses(Split(line)[2])

\* The Record of a qualifying line.
Decode(line) ==
    [Treatment |-> Split(line)[1],
     Mean |-> FloatOf(Split(line)[2]),
     Group |-> Split(line)[3]]

Count(seq, x) == Cardinality({i \in DOMAIN seq : seq[i] = x})

\* C6: parse_rtf_content does not raise, and every Record it returns is the
\* Record of a line with at least 3 tokens and a numeric second token, no
\* more often than such lines occur: a line with fewer than 3 tokens or a
\* non-numeric second token emits nothing.
C6_ExtractorSound ==
    ppc # "read" =>
       /\ df # ValueError
       /\ \A r \in Range(df) :
             Count(df, r) <=
                Cardinality({i \in DOMAIN Lines :
                               Qualifies(Lines[i]) /\ Decode(Lines[i]) = r})

\* A two-token line and a line with a non-numeric second token were dropped
\* and the line after them gave the only Record.
C6_Witness ==
    /\ ppc = "shown"
    /\ Len(Lines) = 3
    /\ Len(Split(Lines[1])) = 2
    /\ Len(Split(Lines[2])) >= 3 /\ ~FloatParses(Split(Lines[2])[2])
    /\ df = <<Decode(Lines[3])>>

\* The Records of the qualifying lines among ls, in line order.
RECURSIVE RecordsOf(_)
RecordsOf(ls) ==
    IF ls = <<>> THEN <<>>
    ELSE (IF Qualifies(ls[1]) THEN <<Decode(ls[1])>> ELSE <<>>) \o RecordsOf(Tail(ls))

\* C7: the returned Records are exactly the Records of the lines with at
\* least 3 tokens and a numeric second token, in line order.
C7_EveryNumericLineYieldsRecord ==
    ppc # "read" => df = RecordsOf(Lines)

\* ---- the claims about the loop of main ----

\* C3: assign_groups is reached (mpc = "fitted") only with a table of at
\* least 2 distinct treatments and at least 3 rows whose fit succeeded; only
\* such a combination adds a table to all_results, one at a time; and a step
\* from a table with fewer than 2 distinct treatments or fewer than 3 rows
\* adds nothing and does not lead to assign_groups.
C3_SkipRule ==
    /\ [](mpc = "fitted" =>
            /\ Cardinality(Range(sub_df)) >= 2
            /\ Len(sub_df) >= 3
            /\ fit.status = "ok")
    /\ [][all_results' # all_results =>
            /\ mpc = "fitted"
            /\ Cardinality(Range(sub_df)) >= 2
            /\ Len(sub_df) >= 3
            /\ fit.status = "ok"
            /\ Len(all_results') = Len(all_results) + 1
            /\ SubSeq(all_results', 1, Len(all_results)) = all_results]_vars
    /\ [][(mpc = "check" /\ (Cardinality(Range(sub_df)) < 2 \/ Len(sub_df) < 3)) =>
            /\ all_results' = all_results
            /\ mpc' # "fitted"]_vars

\* On the first sheet one of two combinations gave a table, and the second,
\* three rows of a single treatment, was skipped.
C3_Witness ==
    /\ mpc = "param"
    /\ sheet = 1
    /\ param = 3
    /\ sub_df = <<1, 1, 1>>
    /\ Len(all_results) = 1

\* C4: a step in which the fit fails leaves all_results as it was and moves
\* on to the next parameter of the same sheet; no step removes or changes a
\* table already collected; a sheet is left only when all its available
\* parameters were visited, for the next sheet; and the loop ends only after
\* the last sheet.
C4_FitFailureSkipsOne ==
    /\ [][(/\ mpc = "check" /\ mpc' = "param"
           /\ Cardinality(Range(sub_df)) >= 2 /\ Len(sub_df) >= 3) =>
            /\ fit'.status = "error"
            /\ all_results' = all_results
            /\ sheet' = sheet
            /\ param' = param + 1
            /\ available_params' = available_params]_vars
    /\ [][/\ Len(all_results') >= Len(all_results)
          /\ SubSeq(all_results', 1, Len(all_results)) = all_results]_vars
    /\ [][sheet' # sheet =>
            /\ param = Len(available_params) + 1
            /\ sheet' = sheet + 1]_vars
    /\ [](mpc = "done" => sheet = Len(trial_sheets) + 1)

\* The last fit failed, the tables collected before are still there, and a
\* combination of the second sheet is being examined.
C4_Witness ==
    /\ mpc = "check"
    /\ sheet = 2
    /\ fit.status = "error"
    /\ all_results # <<>>

\* The rows of a table that belong to one (trial, parameter) combination.
RowsOf(rows, trial, prm) ==
    SelectSeq(rows, LAMBDA r : r.Trial = trial /\ r.Parameter = prm)

\* C8: the rows of one table of all_results carry one (Trial, Parameter) and
\* one p_value, no two tables carry the same combination, the p_value of an
\* appended table is the f_pvalue of the model just fitted, and the filtered
\* view holds all rows of a combination when that p_value is below 0.05 and
\* none of them otherwise.
C8_PValuePropagation ==
    /\ [](\A i \in DOMAIN all_results :
            /\ \A r \in Range(all_results[i]) :
                  /\ r.p_value = all_results[i][1].p_value
                  /\ r.Trial = all_results[i][1].Trial
                  /\ r.Parameter = all_results[i][1].Parameter
            /\ \A j \in DOMAIN all_results :
                  (/\ all_results[j][1].Trial = all_results[i][1].Trial
                   /\ all_results[j][1].Parameter = all_results[i][1].Parameter)
                  => i = j)
    /\ [][(mpc = "fitted" /\ mpc' = "param") =>
            \A r \in Range(all_results'[Len(all_results')]) :
               r.p_value = fit.f_pvalue]_vars
    /\ [](shown = "complete" =>
            /\ full_df = Concat(all_results)
            /\ \A i \in DOMAIN all_results :
                  LET t == all_results[i][1]
                      kept == RowsOf(filtered_df, t.Trial, t.Parameter)
                      all == RowsOf(full_df, t.Trial, t.Parameter)
                  IN  /\ all = all_results[i]
                      /\ kept = (IF t.p_value < Alpha THEN all ELSE <<>>))

\* Results with a significant and a non-significant combination were shown:
\* the filtered view kept the rows of the first and none of the second.
C8_Witness ==
    /\ shown = "complete"
    /\ \E i \in DOMAIN all_results : \E j \in DOMAIN all_results :
          /\ all_results[i][1].p_value = 1
          /\ all_results[j][1].p_value = 20
          /\ Len(all_results[i]) >= 2
          /\ Len(filtered_df) = Len(all_results[i])

\* C5: a run whose input gave no record ends in the 'no data found' outcome,
\* and a run with at least one record does not.
C5_NoDataSignalled ==
    mpc = "done" => ((all_results = <<>>) <=> (shown = "no_data"))

====
